---- MODULE Spec2Model ----
(***************************************************************************)
(* Model of src/main.py: the /transform endpoint of the S3 JSONL           *)
(* transformation service.  create_transformation runs                     *)
(* fetch_and_transform_from_s3 (partition discovery, one object listing    *)
(* per stream, one guarded read-and-parse per .jsonl object) and then      *)
(* apply_transformations (per-stream reshaping with pass-through).         *)
(*                                                                         *)
(* JSON values are written as their JSON text ("null", "''", "[1]"), with  *)
(* Python's truthiness, hashability and equality defined over them.  A     *)
(* record of a stream list is [isdict, fields]; a non-dict list entry has  *)
(* isdict = FALSE.                                                         *)
(***************************************************************************)
EXTENDS Integers, Sequences, FiniteSets, TLC

VARIABLES pc, config, stream_prefixes, idx, store, objects_in_stream, obj_idx,
          get_object_calls, store_error, consolidated_data, data, transformed_data,
          response

vars == <<pc, config, stream_prefixes, idx, store, objects_in_stream, obj_idx,
          get_object_calls, store_error, consolidated_data, data, transformed_data,
          response>>

-----------------------------------------------------------------------------
(* JSON values and the Python operations the code applies to them.         *)

None == "null"

\* bool(v) is False for None, False, 0, "", [] and {}.
Truthy(v) == v \notin {"null", "false", "0", "''", "[]", "{}"}

\* hash(v) raises TypeError for a list or a dict.
Hashable(v) == v \notin {"[]", "{}", "[1]", "{'name':'eng'}"}

\* Python compares (and hashes) True like 1 and False like 0.
PyKey(v) == IF v = "true" THEN "1" ELSE IF v = "false" THEN "0" ELSE v

\* isinstance(v, str) and isinstance(v, dict) for a field's value.
IsStr(v) == v \in {"''", "'eng'", "'u1'", "'u2'", "'d1'", "'d2'", "'<p>h</p>'", "'plain'"}
IsDictValue(v) == v \in {"{}", "{'name':'eng'}"}
DictValueGet(v, k) == IF v = "{'name':'eng'}" /\ k = "name" THEN "'eng'" ELSE None

\* a or b
PyOr(a, b) == IF Truthy(a) THEN a ELSE b

EmptyFields == [k \in {} |-> None]
NonDict == [isdict |-> FALSE, fields |-> EmptyFields]
Dict(f) == [isdict |-> TRUE, fields |-> f]

\* d.get(k) and d.get(k, default)
GetOr(d, k, default) == IF k \in DOMAIN d.fields THEN d.fields[k] ELSE default
Get(d, k) == GetOr(d, k, None)

\* The value of a stream in a data mapping: a list, or something else.
ListVal(items) == [islist |-> TRUE, items |-> items]
NotAList == [islist |-> FALSE, items |-> <<>>]

\* What a call gives: a value, or an exception.
Ok(v) == [raised |-> FALSE, value |-> v]
Raised == [raised |-> TRUE, value |-> <<>>]

-----------------------------------------------------------------------------
(* transform_commits, lines 17-47.                                         *)

\* Variant: the authored date alone, with no fallback.
commit_created_at_without_fallback(commit) == Get(commit, "authored_date")

\* Line 41.
commit_created_at(commit) == PyOr(Get(commit, "authored_date"), Get(commit, "created_at"))

transformed_commit(commit) ==
    Dict([id |-> Get(commit, "id"),
          short_id |-> Get(commit, "short_id"),
          title |-> Get(commit, "title"),
          message |-> Get(commit, "message"),
          author |-> [name |-> Get(commit, "author_name"),
                      email |-> Get(commit, "author_email")],
          committer |-> [name |-> Get(commit, "committer_name"),
                         email |-> Get(commit, "committer_email")],
          created_at |-> commit_created_at(commit),
          committed_at |-> Get(commit, "committed_date"),
          url |-> Get(commit, "web_url")])

RECURSIVE commits_loop(_, _)
commits_loop(rest, transformed_commits) ==
    IF rest = <<>> THEN transformed_commits
    ELSE IF ~Head(rest).isdict THEN commits_loop(Tail(rest), transformed_commits)
    ELSE commits_loop(Tail(rest), Append(transformed_commits, transformed_commit(Head(rest))))

transform_commits(commits_data) ==
    IF commits_data = <<>> THEN Ok(<<>>) ELSE Ok(commits_loop(commits_data, <<>>))

(* transform_projects, lines 49-79.                                        *)

namespace_name(project) ==
    IF IsDictValue(Get(project, "namespace")) THEN DictValueGet(project.fields["namespace"], "name")
    ELSE IF IsStr(Get(project, "namespace")) THEN Get(project, "namespace")
    ELSE None

\* Variant: the plain description read without the "" default.
project_description_without_default(project) ==
    PyOr(Get(project, "description_html"), Get(project, "description"))

\* Line 75.
project_description(project) ==
    PyOr(Get(project, "description_html"), GetOr(project, "description", "''"))

transformed_project(project) ==
    Dict([id |-> Get(project, "id"),
          name |-> Get(project, "name"),
          path_with_namespace |-> Get(project, "path_with_namespace"),
          url |-> Get(project, "web_url"),
          namespace |-> namespace_name(project),
          created_at |-> Get(project, "created_at"),
          updated_at |-> PyOr(Get(project, "last_activity_at"), Get(project, "updated_at")),
          visibility |-> Get(project, "visibility"),
          description |-> project_description(project)])

RECURSIVE projects_loop(_, _)
projects_loop(rest, transformed_projects) ==
    IF rest = <<>> THEN transformed_projects
    ELSE IF ~Head(rest).isdict THEN projects_loop(Tail(rest), transformed_projects)
    ELSE projects_loop(Tail(rest), Append(transformed_projects, transformed_project(Head(rest))))

transform_projects(projects_data) ==
    IF projects_data = <<>> THEN Ok(<<>>) ELSE Ok(projects_loop(projects_data, <<>>))

(* transform_users, lines 81-105.                                          *)

transformed_user(user) ==
    Dict([id |-> Get(user, "id"),
          username |-> Get(user, "username"),
          name |-> Get(user, "name"),
          url |-> Get(user, "web_url"),
          avatar_url |-> Get(user, "avatar_url")])

\* user_id not in seen_ids: hashing user_id raises for a list or a dict.
unseen_raises(user_id) == ~Hashable(user_id)

\* Variant: the id is never looked up in seen_ids.
keeps_user_without_seen_ids(user_id, seen_ids) == Truthy(user_id)

\* if user_id and user_id not in seen_ids
keeps_user(user_id, seen_ids) == Truthy(user_id) /\ PyKey(user_id) \notin seen_ids

RECURSIVE users_loop(_, _, _)
users_loop(rest, seen_ids, transformed_users) ==
    IF rest = <<>> THEN Ok(transformed_users)
    ELSE LET user == Head(rest)
             user_id == Get(user, "id")
         IN  IF ~user.isdict THEN users_loop(Tail(rest), seen_ids, transformed_users)
             ELSE IF Truthy(user_id) /\ unseen_raises(user_id) THEN Raised
             ELSE IF keeps_user(user_id, seen_ids)
                  THEN users_loop(Tail(rest), seen_ids \cup {PyKey(user_id)},
                                  Append(transformed_users, transformed_user(user)))
                  ELSE users_loop(Tail(rest), seen_ids, transformed_users)

transform_users(users_data) ==
    IF users_data = <<>> THEN Ok(<<>>) ELSE users_loop(users_data, {}, <<>>)

(* apply_transformations, lines 107-135.                                   *)

\* Variant: the failed stream is left with an empty list.
on_transform_failure_drops_data(stream_data) == ListVal(<<>>)

\* except Exception: keep the original data (line 133).
on_transform_failure(stream_data) == stream_data

\* The try block of lines 120-133 for one stream whose value is a list.
transform_stream(stream_name, stream_data) ==
    LET result == IF stream_name = "commits" THEN transform_commits(stream_data.items)
                  ELSE IF stream_name = "projects" THEN transform_projects(stream_data.items)
                  ELSE IF stream_name = "users" THEN transform_users(stream_data.items)
                  ELSE Ok(stream_data.items)
    IN  IF result.raised THEN on_transform_failure(stream_data) ELSE ListVal(result.value)

\* One iteration of the loop of line 114.
transform_item(stream_name, stream_data) ==
    IF ~stream_data.islist THEN stream_data ELSE transform_stream(stream_name, stream_data)

\* transformed_data[stream_name] = value
SetItem(d, k, v) == [x \in DOMAIN d \cup {k} |-> IF x = k THEN v ELSE d[x]]

EmptyDict == [k \in {} |-> NotAList]

\* Variant: a value that is not a list is skipped without being stored.
store_transformed_lists_only(transformed, stream_name, value) ==
    IF value.islist THEN SetItem(transformed, stream_name, value) ELSE transformed

\* Lines 117, 122-133: transformed_data[stream_name] = value.
store_transformed(transformed, stream_name, value) == SetItem(transformed, stream_name, value)

RECURSIVE apply_loop(_, _, _)
apply_loop(d, remaining, transformed) ==
    IF remaining = {} THEN transformed
    ELSE LET stream_name == CHOOSE s \in remaining : TRUE
         IN  apply_loop(d, remaining \ {stream_name},
                        store_transformed(transformed, stream_name,
                                          transform_item(stream_name, d[stream_name])))

apply_transformations(d) ==
    IF DOMAIN d = {} THEN EmptyDict ELSE apply_loop(d, DOMAIN d, EmptyDict)

-----------------------------------------------------------------------------
(* The object store as the fetch sees it.                                  *)

\* Objects a stream's prefix may hold, and keys one list_objects_v2 response
\* carries (S3 returns at most one page of keys per call; scaled down).
MaxObjects == 3
MaxKeys == 2

\* The request body (S3Config, lines 10-14); the credentials play no part.
Configs == {[s3_bucket_name |-> "your-airbyte-output-bucket", s3_bucket_path |-> "vapormedia"]}

\* A prefix is kept as prefix.split('/'): "vapormedia/users/" is
\* <<"vapormedia", "users", "">>.
PrefixOf(cfg, name) == <<cfg.s3_bucket_path, name, "">>

\* One page of the delimiter listing; a page may lack "CommonPrefixes".
Page(prefixes) == [has_common_prefixes |-> TRUE, CommonPrefixes |-> prefixes]
PageWithoutPrefixes == [has_common_prefixes |-> FALSE, CommonPrefixes |-> <<>>]

DiscoveryPages(cfg) ==
    LET i == PrefixOf(cfg, "issues")
        u == PrefixOf(cfg, "users")
    IN  { <<PageWithoutPrefixes>>,
          <<Page(<<i>>)>>,
          <<Page(<<u>>)>>,
          <<Page(<<i, u>>)>>,
          <<Page(<<i>>), Page(<<u>>)>>,
          <<Page(<<i>>), PageWithoutPrefixes>> }

\* What a call to the store may raise.
StoreErrors == {"NoCredentialsError", "ClientError:NoSuchBucket",
                "ClientError:AccessDenied", "Exception"}

\* Records found in files.
RecA == Dict([id |-> "1", username |-> "'u1'"])
RecB == Dict([id |-> "1", username |-> "'u2'"])
RecC == Dict([id |-> "2", username |-> "'u1'"])

\* A line of a file: "empty" is '', "blank" is whitespace only, "bad" is no
\* JSON, "scalar" is a JSON number, boolean or null, "container" is a JSON
\* array or string without the marker, "wrapped" is an object with the key
\* _airbyte_data (rec is that key's value), "plain" is any other object.
Line(kind, rec) == [kind |-> kind, rec |-> rec]
EmptyLine == Line("empty", NonDict)
BlankLine == Line("blank", NonDict)
BadLine == Line("bad", NonDict)
ScalarLine == Line("scalar", NonDict)
ContainerLine == Line("container", NonDict)
Wrapped(rec) == Line("wrapped", rec)
Plain(rec) == Line("plain", rec)

Object(ext, readable, lines) == [ext |-> ext, readable |-> readable, lines |-> lines]

ObjectKinds ==
    { Object(".jsonl", TRUE, <<BlankLine, Wrapped(RecA), EmptyLine, Plain(RecB), EmptyLine>>),
      Object(".jsonl", TRUE, <<Plain(RecC), BadLine, Plain(RecA)>>),
      Object(".jsonl", TRUE, <<ContainerLine, ScalarLine>>),
      Object(".jsonl", FALSE, <<Plain(RecA)>>),
      Object(".json", TRUE, <<Plain(RecB)>>) }

StreamContents == UNION {[1..n -> ObjectKinds] : n \in 0..MaxObjects}

-----------------------------------------------------------------------------
(* fetch_and_transform_from_s3, lines 143-221.                             *)

\* Lines 168-176: the exception raised while connecting or discovering.
connection_error(err, cfg) ==
    IF err = "NoCredentialsError"
    THEN [status_code |-> 401, detail |-> <<"AWS credentials not found or invalid.">>]
    ELSE IF err = "ClientError:NoSuchBucket"
    THEN [status_code |-> 404, detail |-> <<"S3 bucket '", cfg.s3_bucket_name, "' not found.">>]
    ELSE IF err \in {"ClientError:AccessDenied"}
    THEN [status_code |-> 500, detail |-> <<"An S3 client error occurred: ", err>>]
    ELSE [status_code |-> 500, detail |-> <<"An unexpected error occurred during S3 connection: ", err>>]

\* Line 179.
no_streams_error(cfg) ==
    [status_code |-> 404,
     detail |-> <<"No stream directories found under the path '", cfg.s3_bucket_path,
                  "/' in bucket '", cfg.s3_bucket_name, "'.">>]

\* Lines 163-166.
RECURSIVE collect_prefixes(_, _)
collect_prefixes(pages, prefixes) ==
    IF pages = <<>> THEN prefixes
    ELSE IF Head(pages).has_common_prefixes
         THEN collect_prefixes(Tail(pages), prefixes \o Head(pages).CommonPrefixes)
         ELSE collect_prefixes(Tail(pages), prefixes)

\* Line 186: prefix.split('/')[-2].
stream_name_of(prefix) == prefix[Len(prefix) - 1]

\* Line 192: one call of list_objects_v2, no continuation: the response holds
\* the first MaxKeys keys, and no "Contents" when the prefix holds nothing.
list_objects_v2(objs) ==
    [has_contents |-> objs # <<>>,
     Contents |-> SubSeq(objs, 1, IF Len(objs) < MaxKeys THEN Len(objs) ELSE MaxKeys)]

\* Line 201.
endswith_jsonl(obj) == obj.ext = ".jsonl"

\* Line 209: file_content.strip().split('\n').
RECURSIVE lstrip(_)
lstrip(lines) ==
    IF lines # <<>> /\ Head(lines).kind \in {"empty", "blank"} THEN lstrip(Tail(lines)) ELSE lines
RECURSIVE rstrip(_)
rstrip(lines) ==
    IF lines # <<>> /\ lines[Len(lines)].kind \in {"empty", "blank"}
    THEN rstrip(SubSeq(lines, 1, Len(lines) - 1)) ELSE lines
strip_split(lines) ==
    LET stripped == rstrip(lstrip(lines)) IN IF stripped = <<>> THEN <<EmptyLine>> ELSE stripped

\* Variant: a failed file's records are taken back.
except_file_failure_rolls_back(before, appended) == before

\* Lines 218-219: the failure is printed; what the loop appended stays.
except_file_failure(before, appended) == appended

\* Lines 209-217: records go straight onto the stream's list.
RECURSIVE lines_loop(_, _, _)
lines_loop(rest, before, stream_list) ==
    IF rest = <<>> THEN stream_list
    ELSE LET line == Head(rest) IN
         IF line.kind = "empty" THEN lines_loop(Tail(rest), before, stream_list)
         ELSE IF line.kind \in {"blank", "bad"} THEN except_file_failure(before, stream_list)
         ELSE IF line.kind = "scalar" THEN except_file_failure(before, stream_list)
         ELSE lines_loop(Tail(rest), before, Append(stream_list, line.rec))

\* Lines 203-219 for one .jsonl object.
read_file(obj, stream_list) ==
    IF ~obj.readable THEN except_file_failure(stream_list, stream_list)
    ELSE lines_loop(strip_split(obj.lines), stream_list, stream_list)

\* Lines 199-219 for one listed object.
process_object(obj, stream_list) ==
    IF endswith_jsonl(obj) THEN read_file(obj, stream_list) ELSE stream_list

NoResponse == [status_code |-> 0, detail |-> <<>>, has_body |-> FALSE, body |-> EmptyDict]
HTTPException(e) == [status_code |-> e.status_code, detail |-> e.detail,
                     has_body |-> FALSE, body |-> EmptyDict]
\* Lines 239-241.
internal_error(err) ==
    HTTPException([status_code |-> 500, detail |-> <<"An internal error occurred: ", err>>])

NoData == [k \in {} |-> <<>>]

\* The exception the store raised to the fetch, and at which call.
NoError == [at |-> "none", err |-> "none"]
StoreError(at, err) == [at |-> at, err |-> err]

\* The listing of line 192 is signed with the credentials the discovery
\* already used: it raises a client error or something unexpected.
ListErrors == StoreErrors \ {"NoCredentialsError"}

-----------------------------------------------------------------------------
(* create_transformation, lines 224-241: the request, step by step.        *)

Init ==
    /\ pc = "connect"
    /\ config \in Configs
    /\ stream_prefixes = <<>>
    /\ idx = 0
    /\ store = <<>>
    /\ objects_in_stream = list_objects_v2(<<>>)
    /\ obj_idx = 0
    /\ get_object_calls = {}
    /\ store_error = NoError
    /\ consolidated_data = NoData
    /\ data = EmptyDict
    /\ transformed_data = EmptyDict
    /\ response = NoResponse

\* Lines 149-179, the store answering: the prefixes are collected from every
\* page; none found raises the 404 of line 179.
DiscoverStreams ==
    /\ pc = "connect"
    /\ \E pages \in DiscoveryPages(config) :
         LET prefixes == collect_prefixes(pages, <<>>) IN
         /\ stream_prefixes' = prefixes
         /\ IF prefixes = <<>>
            THEN /\ response' = HTTPException(no_streams_error(config))
                 /\ pc' = "done"
            ELSE /\ response' = response
                 /\ pc' = "streams"
    /\ UNCHANGED <<config, idx, store, objects_in_stream, obj_idx, get_object_calls,
                   store_error, consolidated_data, data, transformed_data>>

\* Lines 149-176, the store raising: the except clauses classify the error and
\* create_transformation re-raises the HTTPException (lines 236-238).
DiscoverFails ==
    /\ pc = "connect"
    /\ \E err \in StoreErrors :
         /\ store_error' = StoreError("connect", err)
         /\ response' = HTTPException(connection_error(err, config))
    /\ pc' = "done"
    /\ UNCHANGED <<config, stream_prefixes, idx, store, objects_in_stream, obj_idx,
                   get_object_calls, consolidated_data, data, transformed_data>>

\* Lines 185-196: the stream's list is created empty and its objects listed.
ListObjects ==
    /\ pc = "streams"
    /\ idx < Len(stream_prefixes)
    /\ \E objs \in StreamContents :
         LET stream_name == stream_name_of(stream_prefixes[idx + 1])
             listed == list_objects_v2(objs)
         IN  /\ store' = Append(store, objs)
             /\ consolidated_data' = SetItem(consolidated_data, stream_name, <<>>)
             /\ objects_in_stream' = listed
             /\ obj_idx' = 0
             /\ IF listed.has_contents
                THEN pc' = "objects" /\ idx' = idx
                ELSE pc' = "streams" /\ idx' = idx + 1
    /\ UNCHANGED <<config, stream_prefixes, get_object_calls, store_error, data,
                   transformed_data, response>>

\* Line 192 raising: nothing in the fetch catches it, and lines 239-241 turn
\* it into a 500.
ListObjectsFails ==
    /\ pc = "streams"
    /\ idx < Len(stream_prefixes)
    /\ \E err \in ListErrors :
         /\ store_error' = StoreError("list", err)
         /\ response' = internal_error(err)
    /\ consolidated_data' =
         SetItem(consolidated_data, stream_name_of(stream_prefixes[idx + 1]), <<>>)
    /\ pc' = "done"
    /\ UNCHANGED <<config, stream_prefixes, idx, store, objects_in_stream, obj_idx,
                   get_object_calls, data, transformed_data>>

\* Lines 199-219: one object of the listing response.
ProcessObject ==
    /\ pc = "objects"
    /\ obj_idx < Len(objects_in_stream.Contents)
    /\ LET obj == objects_in_stream.Contents[obj_idx + 1]
           stream_name == stream_name_of(stream_prefixes[idx + 1])
       IN  /\ consolidated_data' =
                SetItem(consolidated_data, stream_name,
                        process_object(obj, consolidated_data[stream_name]))
           /\ get_object_calls' =
                IF endswith_jsonl(obj) THEN get_object_calls \cup {<<idx + 1, obj_idx + 1>>}
                ELSE get_object_calls
    /\ obj_idx' = obj_idx + 1
    /\ IF obj_idx + 1 = Len(objects_in_stream.Contents)
       THEN pc' = "streams" /\ idx' = idx + 1
       ELSE pc' = "objects" /\ idx' = idx
    /\ UNCHANGED <<config, stream_prefixes, store, objects_in_stream, store_error, data,
                   transformed_data, response>>

\* Lines 221 and 233: the fetch returns consolidated_data.
FetchReturns ==
    /\ pc = "streams"
    /\ idx = Len(stream_prefixes)
    /\ data' = [s \in DOMAIN consolidated_data |-> ListVal(consolidated_data[s])]
    /\ pc' = "apply"
    /\ UNCHANGED <<config, stream_prefixes, idx, store, objects_in_stream, obj_idx,
                   get_object_calls, store_error, consolidated_data, transformed_data,
                   response>>

\* Lines 234-235: apply_transformations, and the mapping is the response.
Transform ==
    /\ pc = "apply"
    /\ transformed_data' = apply_transformations(data)
    /\ response' = [status_code |-> 200, detail |-> <<>>, has_body |-> TRUE,
                    body |-> apply_transformations(data)]
    /\ pc' = "done"
    /\ UNCHANGED <<config, stream_prefixes, idx, store, objects_in_stream, obj_idx,
                   get_object_calls, store_error, consolidated_data, data>>

Next ==
    \/ DiscoverStreams
    \/ DiscoverFails
    \/ ListObjects
    \/ ListObjectsFails
    \/ ProcessObject
    \/ FetchReturns
    \/ Transform

Spec == Init /\ [][Next]_vars

-----------------------------------------------------------------------------
(* apply_transformations on its own: the request starts at line 234 with a  *)
(* mapping drawn from a bounded set.                                        *)

MaxCommits == 2
MaxProjects == 2
MaxUsers == 3
MaxStreamList == 2

SeqsUpTo(S, n) == UNION {[1..k -> S] : k \in 0..n}
DictsOver(keys, values) == {Dict(f) : f \in UNION {[K -> values] : K \in SUBSET keys}}

DateValues == {"null", "''", "0", "'d1'", "'d2'"}
CommitEntries == {NonDict} \cup DictsOver({"authored_date", "created_at"}, DateValues)

DescriptionValues == {"null", "''", "0", "'<p>h</p>'", "'plain'"}
ProjectEntries == {NonDict} \cup DictsOver({"description_html", "description"}, DescriptionValues)

IdValues == {"null", "0", "1", "2", "true", "[1]"}
Usernames == {"'u1'", "'u2'"}
UserEntries == {NonDict} \cup {Dict([username |-> u]) : u \in Usernames}
                 \cup {Dict([id |-> i, username |-> u]) : i \in IdValues, u \in Usernames}

StreamNames == {"commits", "projects", "users", "issues"}
StreamEntries == {Dict([id |-> "1", authored_date |-> "'d1'", description |-> "'plain'"]),
                  Dict([id |-> "[1]"])}
StreamValues == {NotAList} \cup {ListVal(l) : l \in SeqsUpTo(StreamEntries, MaxStreamList)}

InitApplyWith(d) ==
    /\ pc = "apply"
    /\ config \in Configs
    /\ stream_prefixes = <<>>
    /\ idx = 0
    /\ store = <<>>
    /\ objects_in_stream = list_objects_v2(<<>>)
    /\ obj_idx = 0
    /\ get_object_calls = {}
    /\ store_error = NoError
    /\ consolidated_data = NoData
    /\ data = d
    /\ transformed_data = EmptyDict
    /\ response = NoResponse

InitCommits == \E l \in SeqsUpTo(CommitEntries, MaxCommits) : InitApplyWith([commits |-> ListVal(l)])
InitProjects == \E l \in SeqsUpTo(ProjectEntries, MaxProjects) : InitApplyWith([projects |-> ListVal(l)])
InitUsers == \E l \in SeqsUpTo(UserEntries, MaxUsers) : InitApplyWith([users |-> ListVal(l)])
InitApply == \E names \in SUBSET StreamNames : \E d \in [names -> StreamValues] : InitApplyWith(d)

NextApply == Transform

SpecCommits == InitCommits /\ [][NextApply]_vars
SpecProjects == InitProjects /\ [][NextApply]_vars
SpecUsers == InitUsers /\ [][NextApply]_vars
SpecApply == InitApply /\ [][NextApply]_vars

-----------------------------------------------------------------------------
(* Properties of apply_transformations.                                     *)

Present(d, k) == d.isdict /\ k \in DOMAIN d.fields
IsDictEntry(e) == e.isdict
DictEntries(list) == SelectSeq(list, IsDictEntry)
Min(S) == CHOOSE x \in S : \A y \in S : x <= y

\* The JSON values Python treats as false.
FalsyJson == {"null", "false", "0", "''", "[]", "{}"}

\* C3: the output of apply_transformations has exactly the stream names of
\* its input, whatever the streams hold.
C3_StreamNamesPreserved ==
    pc = "done" => /\ DOMAIN transformed_data = DOMAIN data
                   /\ DOMAIN response.body = DOMAIN data

\* The reshaping function matched for stream s raises on the stream's list.
ReshapingRaises(s) ==
    /\ data[s].islist
    /\ IF s = "commits" THEN transform_commits(data[s].items).raised
       ELSE IF s = "projects" THEN transform_projects(data[s].items).raised
       ELSE IF s = "users" THEN transform_users(data[s].items).raised
       ELSE FALSE

C3_Witness ==
    /\ pc = "done"
    /\ {"users", "issues", "commits"} \subseteq DOMAIN data
    /\ ReshapingRaises("users")
    /\ ~data["commits"].islist
    /\ data["issues"].islist /\ data["issues"].items # <<>>
    /\ DOMAIN transformed_data = DOMAIN data

\* The input with the list of every failing stream emptied.
WithoutFailures ==
    [s \in DOMAIN data |-> IF ReshapingRaises(s) THEN ListVal(<<>>) ELSE data[s]]

\* C7: apply_transformations returns a mapping; a stream whose reshaping
\* raises keeps its original list, and every other stream comes out as it
\* does when no stream fails.
C7_FailureFallsBackPerStream ==
    pc = "done" =>
        /\ response.has_body /\ response.body = transformed_data
        /\ \A s \in DOMAIN data :
             /\ ReshapingRaises(s) => transformed_data[s] = data[s]
             /\ ~ReshapingRaises(s) =>
                    transformed_data[s] = apply_transformations(WithoutFailures)[s]

C7_Witness ==
    /\ pc = "done"
    /\ {"users", "commits", "projects"} \subseteq DOMAIN data
    /\ ReshapingRaises("users")
    /\ Len(data["users"].items) = 2
    /\ transformed_data["users"] = data["users"]
    /\ data["commits"].islist /\ data["commits"].items # <<>>
    /\ transformed_data["commits"] # data["commits"]

-----------------------------------------------------------------------------
(* transform_users through apply_transformations.                           *)

UsersIn == data["users"].items
UsersOut == transformed_data["users"].items

ShareId(a, b) == Present(a, "id") /\ Present(b, "id") /\ a.fields["id"] = b.fields["id"]

\* The positions of the input's dict entries that carry the id v.
Occurrences(v) == {i \in 1..Len(UsersIn) : Present(UsersIn[i], "id") /\ UsersIn[i].fields["id"] = v}

\* C4 as claimed: for any list, no two output records share an id, and the
\* output record of an id occurring several times is built from the first
\* occurrence.
C4_AsClaimed ==
    pc = "done" =>
        /\ \A i, j \in 1..Len(UsersOut) : i < j => ~ShareId(UsersOut[i], UsersOut[j])
        /\ \A k \in 1..Len(UsersOut) :
             Present(UsersOut[k], "id") /\ Cardinality(Occurrences(UsersOut[k].fields["id"])) > 1
                => UsersOut[k] = transformed_user(UsersIn[Min(Occurrences(UsersOut[k].fields["id"]))])

\* Some dict entry has an id that is truthy and cannot be hashed.
HasUnhashableId(list) ==
    \E i \in 1..Len(list) :
        Present(list[i], "id") /\ list[i].fields["id"] \in {"[1]", "{'name':'eng'}"}

\* The positions of the input's dict entries whose id Python finds equal to v.
EqualOccurrences(v) ==
    {i \in 1..Len(UsersIn) : Present(UsersIn[i], "id") /\ PyKey(UsersIn[i].fields["id"]) = PyKey(v)}

\* C4 amended: when no dict entry has a non-empty array or object as id, no
\* two output records have equal ids and each output record is built from
\* the first entry carrying its id; when one has, the output list is the
\* input list unchanged.
C4_DedupUnlessUnhashable ==
    pc = "done" =>
        IF HasUnhashableId(UsersIn)
        THEN transformed_data["users"] = data["users"]
        ELSE /\ \A i, j \in 1..Len(UsersOut) :
                  i < j => PyKey(UsersOut[i].fields["id"]) # PyKey(UsersOut[j].fields["id"])
             /\ \A k \in 1..Len(UsersOut) :
                  /\ EqualOccurrences(UsersOut[k].fields["id"]) # {}
                  /\ UsersOut[k] =
                       transformed_user(UsersIn[Min(EqualOccurrences(UsersOut[k].fields["id"]))])

C4_Witness ==
    /\ pc = "done"
    /\ ~HasUnhashableId(UsersIn)
    /\ Len(UsersIn) = 3
    /\ Present(UsersIn[1], "id") /\ Present(UsersIn[3], "id")
    /\ UsersIn[1].fields["id"] = "1" /\ UsersIn[3].fields["id"] = "1"
    /\ UsersIn[1] # UsersIn[3]
    /\ UsersOut = <<transformed_user(UsersIn[1])>>

-----------------------------------------------------------------------------
(* transform_commits and transform_projects through apply_transformations.  *)

CommitsIn == DictEntries(data["commits"].items)
CommitsOut == transformed_data["commits"].items

\* C9 as claimed: created_at is authored_date whenever that key is present,
\* else created_at, else null.
C9_AsClaimed ==
    pc = "done" =>
        /\ Len(CommitsOut) = Len(CommitsIn)
        /\ \A i \in 1..Len(CommitsOut) :
             CommitsOut[i].fields.created_at =
                IF Present(CommitsIn[i], "authored_date") THEN CommitsIn[i].fields["authored_date"]
                ELSE IF Present(CommitsIn[i], "created_at") THEN CommitsIn[i].fields["created_at"]
                ELSE "null"

\* C9 amended: created_at is authored_date when that key is present with a
\* truthy value; otherwise it is the created_at field when present, else null.
C9_AuthoredDateWhenTruthy ==
    pc = "done" =>
        /\ Len(CommitsOut) = Len(CommitsIn)
        /\ \A i \in 1..Len(CommitsOut) :
             CommitsOut[i].fields.created_at =
                IF Present(CommitsIn[i], "authored_date")
                   /\ CommitsIn[i].fields["authored_date"] \notin FalsyJson
                THEN CommitsIn[i].fields["authored_date"]
                ELSE IF Present(CommitsIn[i], "created_at") THEN CommitsIn[i].fields["created_at"]
                ELSE "null"

C9_Witness ==
    /\ pc = "done"
    /\ Len(CommitsIn) = 2
    /\ Present(CommitsIn[1], "authored_date") /\ CommitsIn[1].fields["authored_date"] = "''"
    /\ Present(CommitsIn[1], "created_at") /\ CommitsIn[1].fields["created_at"] = "'d2'"
    /\ CommitsOut[1].fields.created_at = "'d2'"
    /\ Present(CommitsIn[2], "authored_date") /\ CommitsIn[2].fields["authored_date"] = "'d1'"
    /\ Present(CommitsIn[2], "created_at")
    /\ CommitsOut[2].fields.created_at = "'d1'"

ProjectsIn == DictEntries(data["projects"].items)
ProjectsOut == transformed_data["projects"].items

\* C10 as claimed: description is description_html when that key is present,
\* else description when present, else the empty string; never null when no
\* usable description exists.
C10_AsClaimed ==
    pc = "done" =>
        /\ Len(ProjectsOut) = Len(ProjectsIn)
        /\ \A i \in 1..Len(ProjectsOut) :
             /\ ProjectsOut[i].fields.description =
                  IF Present(ProjectsIn[i], "description_html")
                  THEN ProjectsIn[i].fields["description_html"]
                  ELSE IF Present(ProjectsIn[i], "description")
                  THEN ProjectsIn[i].fields["description"]
                  ELSE "''"
             /\ Get(ProjectsIn[i], "description_html") \in FalsyJson
                   /\ Get(ProjectsIn[i], "description") \in FalsyJson
                => ProjectsOut[i].fields.description = "''"

\* C10 amended: description is description_html when that key is present
\* with a truthy value; otherwise it is the value of the description key when
\* that key is present (null included), and the empty string when it is absent.
C10_HtmlWhenTruthy ==
    pc = "done" =>
        /\ Len(ProjectsOut) = Len(ProjectsIn)
        /\ \A i \in 1..Len(ProjectsOut) :
             ProjectsOut[i].fields.description =
                IF Present(ProjectsIn[i], "description_html")
                   /\ ProjectsIn[i].fields["description_html"] \notin FalsyJson
                THEN ProjectsIn[i].fields["description_html"]
                ELSE IF Present(ProjectsIn[i], "description")
                THEN ProjectsIn[i].fields["description"]
                ELSE "''"

C10_Witness ==
    /\ pc = "done"
    /\ Len(ProjectsIn) = 2
    /\ Present(ProjectsIn[1], "description_html")
    /\ ProjectsIn[1].fields["description_html"] = "''"
    /\ Present(ProjectsIn[1], "description") /\ ProjectsIn[1].fields["description"] = "null"
    /\ ProjectsOut[1].fields.description = "null"
    /\ ~Present(ProjectsIn[2], "description_html") /\ ~Present(ProjectsIn[2], "description")
    /\ ProjectsOut[2].fields.description = "''"

-----------------------------------------------------------------------------
(* Properties of the fetch.                                                 *)

CurrentStream == stream_name_of(stream_prefixes[idx + 1])
CurrentObject == objects_in_stream.Contents[obj_idx + 1]
StreamNameAt(i) == stream_name_of(stream_prefixes[i])

\* A readable .jsonl object whose first line is a JSON object and whose
\* second line is not JSON.
FailsOnSecondLine(obj) ==
    /\ obj.ext = ".jsonl" /\ obj.readable
    /\ Len(obj.lines) >= 2
    /\ obj.lines[1].kind \in {"wrapped", "plain"}
    /\ obj.lines[2].kind = "bad"

\* C1 as claimed: a file that fails to parse on its second line contributes
\* no record; its first line's record is not in the stream's list.
C1_AsClaimed ==
    [][pc = "objects" /\ FailsOnSecondLine(CurrentObject)
          => consolidated_data'[CurrentStream] = consolidated_data[CurrentStream]]_vars

\* C1 amended: a file the fetch reads that fails to parse on its second line
\* contributes exactly its first line's record; the failing line and the
\* lines after it contribute nothing.
C1_FirstLineKept ==
    [][pc = "objects" /\ FailsOnSecondLine(CurrentObject)
          => consolidated_data'[CurrentStream] =
                Append(consolidated_data[CurrentStream], CurrentObject.lines[1].rec)]_vars

C1_Witness ==
    /\ pc = "objects"
    /\ obj_idx = 1
    /\ FailsOnSecondLine(objects_in_stream.Contents[1])
    /\ Len(objects_in_stream.Contents[1].lines) = 3
    /\ consolidated_data[CurrentStream] = <<objects_in_stream.Contents[1].lines[1].rec>>

\* Reading or parsing the object fails.
IsRecordLine(line) == line.kind \in {"wrapped", "plain", "container"}
IsFailingLine(line) == line.kind \in {"bad", "blank", "scalar"}
FileFails(obj) ==
    \/ ~obj.readable
    \/ \E k \in 1..Len(strip_split(obj.lines)) : IsFailingLine(strip_split(obj.lines)[k])

\* The records of an object's lines, in line order.
RecordsOf(obj) ==
    LET lines == SelectSeq(strip_split(obj.lines), IsRecordLine)
    IN  [k \in 1..Len(lines) |-> lines[k].rec]

\* The records of the .jsonl objects of a listing, in listing order.
RECURSIVE AllRecords(_)
AllRecords(objs) ==
    IF objs = <<>> THEN <<>>
    ELSE (IF Head(objs).ext = ".jsonl" THEN RecordsOf(Head(objs)) ELSE <<>>) \o AllRecords(Tail(objs))

\* The same, of the .jsonl objects that do not fail.
RECURSIVE GoodRecords(_)
GoodRecords(objs) ==
    IF objs = <<>> THEN <<>>
    ELSE (IF Head(objs).ext = ".jsonl" /\ ~FileFails(Head(objs)) THEN RecordsOf(Head(objs)) ELSE <<>>)
         \o GoodRecords(Tail(objs))

\* a can be obtained from b by deleting elements.
RECURSIVE IsSubseq(_, _)
IsSubseq(a, b) ==
    IF a = <<>> THEN TRUE
    ELSE IF b = <<>> THEN FALSE
    ELSE IF Head(a) = Head(b) THEN IsSubseq(Tail(a), Tail(b))
    ELSE IsSubseq(a, Tail(b))

\* C2 as claimed: failing objects never abort the fetch; every .jsonl object
\* that does not fail, in every discovered stream, contributes all of its
\* records, and the fetch returns a result.
C2_AsClaimed ==
    (/\ pc = "done" /\ stream_prefixes # <<>> /\ store_error = NoError
     /\ \E i \in 1..Len(store) : \E j \in 1..Len(store[i]) :
            store[i][j].ext = ".jsonl" /\ FileFails(store[i][j])) =>
        /\ response.has_body
        /\ \A i \in 1..Len(stream_prefixes) :
             /\ StreamNameAt(i) \in DOMAIN data
             /\ IsSubseq(GoodRecords(store[i]), data[StreamNameAt(i)].items)

\* C5 as claimed: every .jsonl object under a stream's prefix is read, also
\* one the store lists after the first page.
C5_AsClaimed ==
    pc = "done" /\ response.has_body =>
        \A i \in 1..Len(store) : \A j \in 1..Len(store[i]) :
            store[i][j].ext = ".jsonl" => <<i, j>> \in get_object_calls

\* C6 as claimed: when no file fails, the result has one key per discovered
\* partition and each list is the concatenation of the records of the
\* stream's .jsonl objects in listing order, then line order.
C6_AsClaimed ==
    (/\ pc = "done" /\ response.has_body
     /\ \A i \in 1..Len(store) : \A j \in 1..Len(store[i]) :
            store[i][j].ext = ".jsonl" => ~FileFails(store[i][j]))
    => /\ DOMAIN data = {StreamNameAt(i) : i \in 1..Len(stream_prefixes)}
       /\ \A i \in 1..Len(stream_prefixes) :
            data[StreamNameAt(i)] = ListVal(AllRecords(store[i]))

InDetail(x) == \E k \in 1..Len(response.detail) : response.detail[k] = x

\* C8 as claimed: a fetch-level failure gives no data mapping and a status by
\* cause: missing credentials 401, missing bucket 404 naming the bucket, no
\* partitions 404 naming bucket and path, any other error 500, also when it
\* is the per-stream listing that raises.
C8_AsClaimed ==
    pc = "done" =>
        /\ store_error.err = "NoCredentialsError" =>
              response.status_code = 401 /\ ~response.has_body
        /\ store_error.err = "ClientError:NoSuchBucket" =>
              /\ response.status_code = 404 /\ ~response.has_body
              /\ InDetail(config.s3_bucket_name)
        /\ store_error = NoError /\ stream_prefixes = <<>> =>
              /\ response.status_code = 404 /\ ~response.has_body
              /\ InDetail(config.s3_bucket_name) /\ InDetail(config.s3_bucket_path)
        /\ store_error.err \in {"ClientError:AccessDenied", "Exception"} =>
              response.status_code = 500 /\ ~response.has_body

-----------------------------------------------------------------------------
(* What does hold of the fetch: the same statements with every listing      *)
(* within one response of list_objects_v2, and the status of the errors     *)
(* the discovery raises.                                                    *)

WithinOnePage == \A i \in 1..Len(store) : Len(store[i]) <= MaxKeys

FailuresIsolatedWithinOnePage == WithinOnePage => C2_AsClaimed
EveryJsonlReadWithinOnePage == WithinOnePage => C5_AsClaimed
ConsolidationWithinOnePage == WithinOnePage => C6_AsClaimed
DiscoveryErrorsClassified == store_error.at # "list" => C8_AsClaimed
ListingErrorsAre500 ==
    pc = "done" /\ store_error.at = "list" => response.status_code = 500 /\ ~response.has_body

====
